---- MODULE Spec2Model ----
(***************************************************************************)
(* Model of the Property Identifier Tool (src/identifier.py): the template *)
(* extractor parse_parcel_format, the matcher format_parcel_id /           *)
(* attempt_format / detect_and_format_multi / get_parts_for_multi, and the *)
(* Streamlit session that accumulates templates in                         *)
(* st.session_state.all_formats.                                           *)
(*                                                                         *)
(* A Python str is modelled as a sequence of one-character strings.        *)
(***************************************************************************)
EXTENDS Integers, Sequences, FiniteSets

VARIABLES
    all_formats,            \* st.session_state.all_formats
    run,                    \* which button the last script run handled
    example_parcel,         \* text of the example form in the last run
    parcel_id,              \* the row value x handed to the lambdas
    Reformatted_Parcel_ID,  \* df["Reformatted_Parcel_ID"] of that row
    Parts,                  \* df_parts of that row
    pc,                     \* position of the function pipeline
    ex,                     \* pipeline input: an example string
    raw,                    \* pipeline input: a raw identifier
    parsed,                 \* result of parse_parcel_format(ex)
    rebuilt,                \* format_parcel_id of the example's own characters
    final_str,              \* attempt_format(raw, template of ex)
    again                   \* attempt_format(final_str, template of ex)

session_vars == <<all_formats, run, example_parcel, parcel_id,
                  Reformatted_Parcel_ID, Parts>>
fn_vars == <<pc, ex, raw, parsed, rebuilt, final_str, again>>
vars == <<all_formats, run, example_parcel, parcel_id, Reformatted_Parcel_ID,
          Parts, pc, ex, raw, parsed, rebuilt, final_str, again>>

----------------------------------------------------------------------------
(* Bounds of the model *)

MaxExampleLen == 3
MaxRawLen == 3
MaxRowLen == 2
MaxFormats == 2

----------------------------------------------------------------------------
(* Characters *)

\* the class [a-zA-Z] of the regular expressions
Letters ==
    {"a","b","c","d","e","f","g","h","i","j","k","l","m",
     "n","o","p","q","r","s","t","u","v","w","x","y","z",
     "A","B","C","D","E","F","G","H","I","J","K","L","M",
     "N","O","P","Q","R","S","T","U","V","W","X","Y","Z"}

\* the class [0-9] of the regular expressions
Digits == {"0","1","2","3","4","5","6","7","8","9"}

\* re.match(r'[a-zA-Z0-9]', char)
IsAlnum(char) == char \in Letters \cup Digits

\* the characters str.strip() removes (the ASCII ones)
Whitespace == {" ", "\t", "\n", "\r", "\f"}

\* char in ['-', '.']
Separators == {"-", "."}

\* the literal "Unable to reformat"
UNABLE == <<"U","n","a","b","l","e"," ","t","o"," ",
            "r","e","f","o","r","m","a","t">>

\* re.sub(r'[^a-zA-Z0-9]', '', s)
StripNonAlnum(s) == SelectSeq(s, IsAlnum)

RECURSIVE lstrip(_)
lstrip(s) ==
    IF s # <<>> /\ Head(s) \in Whitespace THEN lstrip(Tail(s)) ELSE s

RECURSIVE rstrip(_)
rstrip(s) ==
    IF s # <<>> /\ s[Len(s)] \in Whitespace
    THEN rstrip(SubSeq(s, 1, Len(s) - 1))
    ELSE s

\* str.strip()
strip(s) == rstrip(lstrip(s))

\* Python's s[start:stop] for 0 <= start, 0 <= stop (the slice is clipped)
Slice(s, start, stop) ==
    SubSeq(s, start + 1, IF stop < Len(s) THEN stop ELSE Len(s))

----------------------------------------------------------------------------
(* 1. parse_parcel_format *)

\* the for loop over parcel_str: i is the index of the next character
RECURSIVE scan_insertion_points(_, _, _, _)
scan_insertion_points(parcel_str, i, char_count_so_far, insertion_points) ==
    IF i > Len(parcel_str) THEN insertion_points
    ELSE LET char == parcel_str[i] IN
         IF IsAlnum(char)
         THEN scan_insertion_points(parcel_str, i + 1, char_count_so_far + 1,
                                    insertion_points)
         ELSE IF char \in Separators
         THEN scan_insertion_points(parcel_str, i + 1, char_count_so_far,
                  Append(insertion_points, <<char_count_so_far, char>>))
         ELSE scan_insertion_points(parcel_str, i + 1, char_count_so_far,
                                    insertion_points)

parse_parcel_format(parcel_str) ==
    [alphanumeric_str |-> StripNonAlnum(parcel_str),
     insertion_points |-> scan_insertion_points(parcel_str, 1, 0, <<>>),
     target_length    |-> Len(strip(parcel_str))]

\* the dict the example form stores for a parsed example
FormatOf(p) ==
    [insertion_points |-> p.insertion_points,
     target_length    |-> p.target_length]

----------------------------------------------------------------------------
(* 2. format_parcel_id *)

\* one pass of the loop body for the pair (pos, char)
insert_point(output, pos, char) ==
    IF pos <= Len(output)
    THEN SubSeq(output, 1, pos) \o <<char>> \o SubSeq(output, pos + 1, Len(output))
    ELSE Append(output, char)

\* the loop over reversed(insertion_points): k pairs are still to be applied
RECURSIVE insert_reversed(_, _, _)
insert_reversed(output, insertion_points, k) ==
    IF k = 0 THEN output
    ELSE insert_reversed(
             insert_point(output, insertion_points[k][1], insertion_points[k][2]),
             insertion_points, k - 1)

\* the same loop without reversed(): pairs k.. are still to be applied
RECURSIVE insert_forward(_, _, _)
insert_forward(output, insertion_points, k) ==
    IF k > Len(insertion_points) THEN output
    ELSE insert_forward(
             insert_point(output, insertion_points[k][1], insertion_points[k][2]),
             insertion_points, k + 1)

\* format_parcel_id with the insertion points applied left to right
format_parcel_id_ltr(alphanumeric_str, insertion_points) ==
    insert_forward(alphanumeric_str, insertion_points, 1)

format_parcel_id(alphanumeric_str, insertion_points) ==
    insert_reversed(alphanumeric_str, insertion_points, Len(insertion_points))

----------------------------------------------------------------------------
(* 3. attempt_format *)

\* attempt_format without the early return on an empty alphanumeric string
attempt_format_noempty(id, fmt) ==
    LET final == format_parcel_id(StripNonAlnum(id), fmt.insertion_points)
    IN  IF Len(final) # fmt.target_length THEN UNABLE ELSE final

\* attempt_format that does not strip the separators of its input
attempt_format_nostrip(id, fmt) ==
    IF StripNonAlnum(id) = <<>> THEN UNABLE
    ELSE LET final == format_parcel_id(id, fmt.insertion_points)
         IN  IF Len(final) # fmt.target_length THEN UNABLE ELSE final

attempt_format(id, fmt) ==
    LET alphanumeric_str == StripNonAlnum(id) IN
    IF alphanumeric_str = <<>> THEN UNABLE
    ELSE LET final == format_parcel_id(alphanumeric_str, fmt.insertion_points)
         IN  IF Len(final) # fmt.target_length THEN UNABLE ELSE final

----------------------------------------------------------------------------
(* 4. detect_and_format_multi *)

\* the for loop over all_formats, at format number i
RECURSIVE detect_from(_, _, _)
detect_from(id, fmts, i) ==
    IF i > Len(fmts) THEN UNABLE
    ELSE LET candidate == attempt_format(id, fmts[i]) IN
         IF candidate # UNABLE THEN candidate
         ELSE detect_from(id, fmts, i + 1)

\* the loop run from the last format to the first
RECURSIVE detect_back(_, _, _)
detect_back(id, fmts, i) ==
    IF i < 1 THEN UNABLE
    ELSE LET candidate == attempt_format(id, fmts[i]) IN
         IF candidate # UNABLE THEN candidate
         ELSE detect_back(id, fmts, i - 1)

\* detect_and_format_multi in which the last matching format wins
detect_and_format_multi_last(id, fmts) == detect_back(id, fmts, Len(fmts))

detect_and_format_multi(id, fmts) == detect_from(id, fmts, 1)

----------------------------------------------------------------------------
(* 5. get_parts_for_multi *)

\* the loop over insertion_points, at pair number k, with the parts so far
RECURSIVE split_parts(_, _, _, _, _)
split_parts(alphanumeric_str, insertion_points, k, start, parts) ==
    IF k > Len(insertion_points)
    THEN Append(parts, Slice(alphanumeric_str, start, Len(alphanumeric_str)))
    ELSE LET pos == insertion_points[k][1] IN
         split_parts(alphanumeric_str, insertion_points, k + 1, pos,
                     Append(parts, Slice(alphanumeric_str, start, pos)))

\* the for loop over all_formats, at format number i
RECURSIVE parts_from(_, _, _)
parts_from(original_val, fmts, i) ==
    IF i > Len(fmts) THEN <<>>
    ELSE LET candidate == attempt_format(original_val, fmts[i]) IN
         IF candidate # UNABLE
         THEN split_parts(StripNonAlnum(candidate), fmts[i].insertion_points,
                          1, 0, <<>>)
         ELSE parts_from(original_val, fmts, i + 1)

\* get_parts_for_multi that forgets the remainder after the last point
get_parts_for_multi_noremainder(original_val, fmts) ==
    LET parts == parts_from(original_val, fmts, 1) IN
    IF parts = <<>> THEN <<>> ELSE SubSeq(parts, 1, Len(parts) - 1)

\* get_parts_for_multi that hands back the raw value when nothing matches
get_parts_for_multi_rawparts(original_val, fmts) ==
    LET parts == parts_from(original_val, fmts, 1) IN
    IF parts = <<>> THEN <<original_val>> ELSE parts

get_parts_for_multi(original_val, fmts) == parts_from(original_val, fmts, 1)

----------------------------------------------------------------------------
(* Inputs *)

\* all strings over the characters S of length at most n
StringsUpTo(S, n) == UNION {[1..k -> S] : k \in 0..n}

\* characters of the examples: a letter, both separators, a blank and one
\* other punctuation mark
ExampleChars == {"a", "-", ".", " ", "#"}

\* characters of the raw identifiers: a letter, a digit and a punctuation mark
RawChars == {"a", "1", "-"}

Examples == StringsUpTo(ExampleChars, MaxExampleLen)
Raws == StringsUpTo(RawChars, MaxRawLen)

\* the values of the selected CSV column
Rows == StringsUpTo(RawChars, MaxRowLen)

\* the texts typed into the example form during a session
SessionExamples ==
    { <<>>, <<" ">>,
      <<"a","-">>, <<"-","a">>, <<"a","a">>, <<"#",".">>,
      <<"a",".","a">>, <<"a","-","a">>, <<"a"," ","a">>,
      <<"a","-",".","a">> }

----------------------------------------------------------------------------
(* The Streamlit session: one step is one run of the script *)

\* the list after "Add Example Format" that replaces the stored formats
append_format_replace(fmts, e) ==
    IF strip(e) # <<>> THEN <<FormatOf(parse_parcel_format(e))>> ELSE fmts

\* the list after "Add Example Format" that puts the new format first
append_format_prepend(fmts, e) ==
    IF strip(e) # <<>> THEN <<FormatOf(parse_parcel_format(e))>> \o fmts ELSE fmts

\* the list after the body of `if add_btn and example_parcel.strip():`
append_format(fmts, e) ==
    IF strip(e) # <<>> THEN Append(fmts, FormatOf(parse_parcel_format(e))) ELSE fmts

Init ==
    /\ all_formats = <<>>
    /\ run = "start"
    /\ example_parcel = <<>>
    /\ parcel_id = <<>>
    /\ Reformatted_Parcel_ID = <<>>
    /\ Parts = <<>>
    /\ pc = "idle"
    /\ ex = <<>>
    /\ raw = <<>>
    /\ parsed = parse_parcel_format(<<>>)
    /\ rebuilt = <<>>
    /\ final_str = <<>>
    /\ again = <<>>

\* a run with "Add Example Format" pressed and the text e in the form
AddExampleFormat(e) ==
    /\ strip(e) # <<>> => Len(all_formats) < MaxFormats
    /\ all_formats' = append_format(all_formats, e)
    /\ run' = "add"
    /\ example_parcel' = e
    /\ parcel_id' = <<>>
    /\ Reformatted_Parcel_ID' = <<>>
    /\ Parts' = <<>>
    /\ UNCHANGED fn_vars

\* a run with "Submit to Reformat" pressed, for the row value x of the column
SubmitToReformat(x) ==
    /\ all_formats # <<>>
    /\ run' = "submit"
    /\ example_parcel' = <<>>
    /\ parcel_id' = x
    /\ Reformatted_Parcel_ID' = detect_and_format_multi(x, all_formats)
    /\ Parts' = get_parts_for_multi(x, all_formats)
    /\ UNCHANGED all_formats
    /\ UNCHANGED fn_vars

Next ==
    \/ \E e \in SessionExamples : AddExampleFormat(e)
    \/ \E x \in Rows : SubmitToReformat(x)

Spec == Init /\ [][Next]_vars

----------------------------------------------------------------------------
(* The functions applied to one example and one raw identifier *)

FnInit ==
    /\ ex \in Examples
    /\ raw \in Raws
    /\ pc = "parse"
    /\ parsed = parse_parcel_format(<<>>)
    /\ rebuilt = <<>>
    /\ final_str = <<>>
    /\ again = <<>>
    /\ all_formats = <<>>
    /\ run = "start"
    /\ example_parcel = <<>>
    /\ parcel_id = <<>>
    /\ Reformatted_Parcel_ID = <<>>
    /\ Parts = <<>>

Parse ==
    /\ pc = "parse"
    /\ parsed' = parse_parcel_format(ex)
    /\ pc' = "format"
    /\ UNCHANGED <<ex, raw, rebuilt, final_str, again>>
    /\ UNCHANGED session_vars

Format ==
    /\ pc = "format"
    /\ rebuilt' = format_parcel_id(parsed.alphanumeric_str, parsed.insertion_points)
    /\ pc' = "attempt"
    /\ UNCHANGED <<ex, raw, parsed, final_str, again>>
    /\ UNCHANGED session_vars

Attempt ==
    /\ pc = "attempt"
    /\ final_str' = attempt_format(raw, FormatOf(parsed))
    /\ pc' = "again"
    /\ UNCHANGED <<ex, raw, parsed, rebuilt, again>>
    /\ UNCHANGED session_vars

Reattempt ==
    /\ pc = "again"
    /\ again' = attempt_format(final_str, FormatOf(parsed))
    /\ pc' = "done"
    /\ UNCHANGED <<ex, raw, parsed, rebuilt, final_str>>
    /\ UNCHANGED session_vars

FnNext == Parse \/ Format \/ Attempt \/ Reattempt

FnSpec == FnInit /\ [][FnNext]_vars

----------------------------------------------------------------------------
(* Vocabulary of the properties *)

HasAlnum(s) == \E i \in 1..Len(s) : IsAlnum(s[i])

NumAlnum(s) == Cardinality({i \in 1..Len(s) : IsAlnum(s[i])})

OnlyAlnumAndSeparators(s) ==
    \A i \in 1..Len(s) : IsAlnum(s[i]) \/ s[i] \in Separators

IsPrefix(s, t) == Len(s) <= Len(t) /\ SubSeq(t, 1, Len(s)) = s

RECURSIVE Concat(_)
Concat(ss) == IF ss = <<>> THEN <<>> ELSE Head(ss) \o Concat(Tail(ss))

\* the pieces of s between its separator characters, empty pieces included
RECURSIVE CutFrom(_, _, _, _)
CutFrom(s, i, piece, pieces) ==
    IF i > Len(s) THEN Append(pieces, piece)
    ELSE IF s[i] \in Separators
    THEN CutFrom(s, i + 1, <<>>, Append(pieces, piece))
    ELSE CutFrom(s, i + 1, Append(piece, s[i]), pieces)

CutAtSeparators(s) == CutFrom(s, 1, <<>>, <<>>)

Accepts(x, fmt) == attempt_format(x, fmt) # UNABLE

Matching(x, fmts) == {i \in 1..Len(fmts) : Accepts(x, fmts[i])}

FirstMatch(x, fmts) ==
    CHOOSE i \in Matching(x, fmts) : \A j \in Matching(x, fmts) : i <= j

Formatted == pc \in {"attempt", "again", "done"}

Attempted == pc \in {"again", "done"}

----------------------------------------------------------------------------
(* Properties of the session, under Spec *)

\* C1: detect_and_format_multi returns attempt_format's result for the first
\* format of the list, in list order, that does not give "Unable to reformat",
\* also when a later format accepts too, and "Unable to reformat" when no
\* format accepts.
C1_FirstFormatWins ==
    run = "submit" =>
        Reformatted_Parcel_ID =
            IF Matching(parcel_id, all_formats) = {} THEN UNABLE
            ELSE attempt_format(parcel_id,
                                all_formats[FirstMatch(parcel_id, all_formats)])

\* two formats accept the row with different results, and the first one won
C1_Witness ==
    /\ run = "submit"
    /\ Len(all_formats) >= 2
    /\ Accepts(parcel_id, all_formats[1])
    /\ Accepts(parcel_id, all_formats[2])
    /\ attempt_format(parcel_id, all_formats[1])
           # attempt_format(parcel_id, all_formats[2])
    /\ Reformatted_Parcel_ID = attempt_format(parcel_id, all_formats[1])

\* C5: when some format matches, the parts returned by get_parts_for_multi,
\* concatenated in order, are the letters and digits of the matched
\* candidate, which are the letters and digits of the raw value.
C5_SegmentCoverage ==
    run = "submit" /\ Reformatted_Parcel_ID # UNABLE =>
        /\ Concat(Parts) = StripNonAlnum(Reformatted_Parcel_ID)
        /\ Concat(Parts) = StripNonAlnum(parcel_id)

\* a matched row split into several non-empty parts that differ
C5_Witness ==
    /\ run = "submit"
    /\ Reformatted_Parcel_ID # UNABLE
    /\ Len(Parts) >= 2
    /\ \A k \in 1..Len(Parts) : Parts[k] # <<>>
    /\ Parts[1] # Parts[2]

\* C9: get_parts_for_multi returns the empty list exactly when
\* detect_and_format_multi returns "Unable to reformat"; otherwise it returns
\* one part more than the first matching format has insertion points, and
\* the parts are the pieces of the reformatted string between its separators.
C9_SegmentAgreesWithDetect ==
    run = "submit" =>
        /\ Parts = <<>> <=> Reformatted_Parcel_ID = UNABLE
        /\ Reformatted_Parcel_ID # UNABLE =>
            /\ Len(Parts) =
                 Len(all_formats[FirstMatch(parcel_id, all_formats)].insertion_points) + 1
            /\ Parts = CutAtSeparators(Reformatted_Parcel_ID)

\* the second format of the list won, and it has adjacent separators
C9_Witness ==
    /\ run = "submit"
    /\ Len(all_formats) >= 2
    /\ Reformatted_Parcel_ID # UNABLE
    /\ FirstMatch(parcel_id, all_formats) = 2
    /\ Len(Parts) = 3
    /\ Parts[2] = <<>>

\* C8: st.session_state.all_formats only grows at its end: every step keeps
\* the old list as a prefix; an add of a non-blank example appends exactly
\* the format parsed from it; an add of a blank example and a submit leave
\* the list as it was.
C8_AppendOnly ==
    [][ /\ IsPrefix(all_formats, all_formats')
        /\ run' = "add" /\ strip(example_parcel') # <<>> =>
              /\ Len(all_formats') = Len(all_formats) + 1
              /\ all_formats'[Len(all_formats')]
                     = FormatOf(parse_parcel_format(example_parcel'))
        /\ run' = "add" /\ strip(example_parcel') = <<>> =>
              all_formats' = all_formats
        /\ run' = "submit" => all_formats' = all_formats
      ]_vars

\* a blank example was submitted after two formats had been stored
C8_Witness ==
    /\ run = "add"
    /\ example_parcel # <<>>
    /\ strip(example_parcel) = <<>>
    /\ Len(all_formats) >= 2
    /\ all_formats[1] # all_formats[2]

\* C10: a row value that the stored formats reformat keeps its reformatted
\* string and its parts in the next state of the session, whatever example
\* is added; a result can change only from "Unable to reformat".
C10_StableUnderAddedExamples ==
    [][ \/ all_formats' = all_formats
        \/ \A x \in Rows :
              detect_and_format_multi(x, all_formats) # UNABLE =>
                 /\ detect_and_format_multi(x, all_formats')
                        = detect_and_format_multi(x, all_formats)
                 /\ get_parts_for_multi(x, all_formats')
                        = get_parts_for_multi(x, all_formats)
      ]_vars

\* the format just added accepts a row that an earlier format reformats
\* differently
C10_Witness ==
    /\ run = "add"
    /\ Len(all_formats) >= 2
    /\ \E x \in Rows :
          /\ Accepts(x, all_formats[1])
          /\ Accepts(x, all_formats[Len(all_formats)])
          /\ attempt_format(x, all_formats[1])
                 # attempt_format(x, all_formats[Len(all_formats)])
          /\ detect_and_format_multi(x, all_formats)
                 = attempt_format(x, all_formats[1])

----------------------------------------------------------------------------
(* Properties of the functions, under FnSpec *)

\* C2: attempt_format returns "Unable to reformat" exactly when the raw
\* string has no letter or digit or its number of letters and digits plus
\* the number of insertion points differs from target_length; otherwise it
\* returns format_parcel_id of the stripped raw string, whatever the
\* letters and digits are.
C2_LengthSoleCriterion ==
    Attempted =>
        final_str =
            IF \/ NumAlnum(raw) = 0
               \/ NumAlnum(raw) + Len(parsed.insertion_points) # parsed.target_length
            THEN UNABLE
            ELSE format_parcel_id(StripNonAlnum(raw), parsed.insertion_points)

\* a raw string with a digit where the example has a letter is accepted
C2_Witness ==
    /\ Attempted
    /\ final_str # UNABLE
    /\ Len(parsed.insertion_points) > 0
    /\ \E i \in 1..Len(raw) : raw[i] = "1"
    /\ \A i \in 1..Len(ex) : ex[i] # "1"

\* C3: for an example with at least one letter or digit, format_parcel_id of
\* its letters and digits with its own insertion points has the length of
\* the trimmed example, which is target_length.
C3_RoundTripLength ==
    Formatted /\ HasAlnum(ex) =>
        /\ Len(rebuilt) = Len(strip(ex))
        /\ Len(rebuilt) = parsed.target_length

\* C4: for an example whose trimmed form holds only letters, digits, '-' and
\* '.', with at least one letter or digit, format_parcel_id of its letters
\* and digits with its own insertion points is the trimmed example.
C4_RoundTripEqual ==
    Formatted /\ HasAlnum(ex) /\ OnlyAlnumAndSeparators(strip(ex)) =>
        rebuilt = strip(ex)

\* an example with a leading separator and a second separator further right
C4_Witness ==
    /\ Formatted
    /\ HasAlnum(ex)
    /\ OnlyAlnumAndSeparators(strip(ex))
    /\ Len(parsed.insertion_points) >= 2
    /\ parsed.insertion_points[1][1] = 0
    /\ parsed.insertion_points[2][1] > 0
    /\ rebuilt = strip(ex)

\* C6: when attempt_format reformats a raw string to s, attempt_format of s
\* with the same format is s.
C6_AttemptIdempotent ==
    pc = "done" /\ final_str # UNABLE => again = final_str

\* a raw string was reformatted to a different string with a separator
C6_Witness ==
    /\ pc = "done"
    /\ final_str # UNABLE
    /\ final_str # raw
    /\ final_str # StripNonAlnum(final_str)
    /\ again = final_str

\* C7: the format of an example without any letter or digit rejects every
\* raw string.
C7_ZeroAlnumRejects ==
    Attempted /\ ~HasAlnum(ex) => final_str = UNABLE

====
